---- MODULE Spec2Model ----
(* The override dashboard of src/app.py: one script run per user session      *)
(* fetches the active rows of the selected source table, shows them in an      *)
(* editable grid and, on "Submit Updates", issues for every changed row an     *)
(* audit insert, a source insert and a flag update against the warehouse.      *)
(* Every warehouse statement is one atomic step; sessions interleave between   *)
(* statements. A statement may fail (the warehouse raises), which the          *)
(* function that issued it catches.                                            *)
EXTENDS Integers, Sequences, FiniteSets, TLC

(* ------------------------------ bounds ------------------------------------ *)
\* grid cells a user changes before submitting
MaxEdits == 2
\* market values: 0..MaxVal
MaxVal == 2

Sessions == {1, 2}
Portfolios == {"p1"}

(* ------------------------------ values ------------------------------------ *)
\* Python's None (a NULL of an object column after to_pandas)
None == "<None>"
\* a float NaN (a NULL of a numeric column after to_pandas); pd.isna(NaN)
NaN == -1

Vals == 0..MaxVal

\* the selected table, its audit table and its editable column (Override_Ref row)
selected_table == "SOURCE"
target_table_name == "TARGET"
editable_column == "MARKET_VALUE"

\* the key columns of the flag update; the model keeps one of the seven
primary_key_cols == <<"PORTFOLIO">>

\* the columns of the source table, in the order of the fetched frame
SourceColumns == <<"PORTFOLIO", "PORTFOLIO_NAME", "MARKET_VALUE", "AS_AT_DATE", "RECORD_FLAG">>
\* the columns of the audit table
TargetColumns == <<"PORTFOLIO", "PORTFOLIO_NAME", "MARKET_VALUE_OLD", "MARKET_VALUE_NEW", "AS_AT_DATE", "RECORD_FLAG">>

NumCols == {"MARKET_VALUE", "MARKET_VALUE_OLD", "MARKET_VALUE_NEW"}
TsCols == {"AS_AT_DATE"}

\* str.upper() on the column names the program handles; the warehouse resolves
\* an unquoted identifier the same way
Upper(name) ==
    CASE name = "market_value" -> "MARKET_VALUE"
      [] name = "record_flag" -> "RECORD_FLAG"
      [] name = "as_at_date" -> "AS_AT_DATE"
      [] OTHER -> name

SeqToSet(q) == {q[j] : j \in 1..Len(q)}

\* dict.keys(): the keys of a row dict in frame order
DictKeys(d) == SelectSeq(SourceColumns, LAMBDA c : c \in DOMAIN d)

\* if k in d: del d[k]
DictDel(d, k) == [c \in DOMAIN d \ {k} |-> d[c]]

\* elementwise != of two frame columns: NaN differs from everything, itself included
\* (the tables of Init hold no NULL market value, so every changed row was edited)
Ne(a, b) == a = NaN \/ b = NaN \/ a # b

(* --------------------------- SQL text, as data ----------------------------- *)
Quoted(v) == [kind |-> "quoted", val |-> v]
Bare(v) == [kind |-> "bare", val |-> v]
Null == [kind |-> "NULL"]
Now == [kind |-> "CURRENT_TIMESTAMP()"]

\* str(v) inside an f-string
Str(v) == IF v = None THEN "None" ELSE v

\* the literal insert_into_source_table writes for a copied value; the type of
\* a value is that of its column
FormatValue(col, val) ==
    IF col \in NumCols
    THEN IF val = NaN THEN Null ELSE Bare(val)
    ELSE IF col \in TsCols
    THEN Quoted(val)
    ELSE IF val = None THEN Null ELSE Quoted(val)

\* insert_into_source_table without its 'del row_data_copy["RECORD_FLAG"]'
insert_into_source_table_no_flag_del(source_table, row_data, new_value, editable_col) ==
    LET row_data_copy == DictDel(DictDel(row_data, Upper(editable_col)), "AS_AT_DATE")
        keys == DictKeys(row_data_copy)
    IN [stmt |-> "INSERT", table |-> source_table,
        columns |-> keys \o <<editable_col, "record_flag", "as_at_date">>,
        values |-> [j \in 1..Len(keys) |-> FormatValue(keys[j], row_data_copy[keys[j]])]
                   \o <<Quoted(new_value), Quoted("A"), Now>>]

\* the statement insert_into_source_table builds
insert_into_source_table(source_table, row_data, new_value, editable_col) ==
    LET row_data_copy ==
            DictDel(DictDel(DictDel(row_data, Upper(editable_col)), "RECORD_FLAG"), "AS_AT_DATE")
        keys == DictKeys(row_data_copy)
    IN [stmt |-> "INSERT", table |-> source_table,
        columns |-> keys \o <<editable_col, "record_flag", "as_at_date">>,
        values |-> [j \in 1..Len(keys) |-> FormatValue(keys[j], row_data_copy[keys[j]])]
                   \o <<Quoted(new_value), Quoted("A"), Now>>]

\* the statement insert_into_override_table builds
insert_into_override_table(target_table, row_data, old_value, new_value) ==
    [stmt |-> "INSERT", table |-> target_table,
     columns |-> TargetColumns,
     values |-> <<Quoted(Str(row_data["PORTFOLIO"])), Quoted(Str(row_data["PORTFOLIO_NAME"])),
                  Bare(old_value), Bare(new_value), Now, Quoted("O")>>]

\* the statement update_source_table_record_flag builds
update_source_table_record_flag(source_table, primary_key_values) ==
    [stmt |-> "UPDATE", table |-> source_table,
     set |-> <<"record_flag", Quoted("D"), "as_at_date", Now>>,
     where |-> [j \in 1..Len(primary_key_cols) |->
                  LET col == primary_key_cols[j]
                  IN IF primary_key_values[col] = None
                     THEN [col |-> col, op |-> "IS NULL"]
                     ELSE [col |-> col, op |-> "=", val |-> primary_key_values[col]]]
               \o <<[col |-> "record_flag", op |-> "=", val |-> "A"]>>]

(* ------------------------------ warehouse ---------------------------------- *)
\* a NULL as to_pandas returns it
NullOf(col) == IF col \in NumCols THEN NaN ELSE None

Eval(lit, col, now) ==
    CASE lit.kind = "NULL" -> NullOf(col)
      [] lit.kind = "CURRENT_TIMESTAMP()" -> now
      [] OTHER -> lit.val

\* the row an INSERT statement adds to a table with the given columns
InsertedRow(sql, table_columns, now) ==
    [c \in SeqToSet(table_columns) |->
        IF \E j \in 1..Len(sql.columns) : Upper(sql.columns[j]) = c
        THEN LET j == CHOOSE j \in 1..Len(sql.columns) : Upper(sql.columns[j]) = c
             IN Eval(sql.values[j], c, now)
        ELSE NullOf(c)]

\* an INSERT that names a column twice is rejected
WellFormed(sql) ==
    \A j, k \in 1..Len(sql.columns) : Upper(sql.columns[j]) = Upper(sql.columns[k]) => j = k

WhereHolds(row, where) ==
    \A j \in 1..Len(where) :
        LET c == Upper(where[j].col)
        IN IF where[j].op = "IS NULL"
           THEN row[c] = NullOf(c)
           ELSE row[c] # NullOf(c) /\ row[c] = where[j].val

\* a flag update that removes the matching rows instead of flagging them
ExecUpdate_delete(tbl, sql, now) ==
    SelectSeq(tbl, LAMBDA r : ~WhereHolds(r, sql.where))

\* the table after the flag update: every matching row is flagged, in place
ExecUpdate(tbl, sql, now) ==
    [i \in 1..Len(tbl) |->
        IF WhereHolds(tbl[i], sql.where)
        THEN [tbl[i] EXCEPT !["RECORD_FLAG"] = "D", !["AS_AT_DATE"] = now]
        ELSE tbl[i]]

(* ------------------------------- state ------------------------------------ *)
VARIABLES
    source,        \* the source table: its rows in insertion order
    target,        \* the audit table: its rows in insertion order
    clock,         \* the warehouse's CURRENT_TIMESTAMP()
    pc,            \* per session, one script run each: "run", "grid", "submit" or "done"
    source_df,     \* per session: the fetched active rows, by frame index
    edited_df,     \* per session: the grid the data editor returns
    index_same,    \* per session: the grid has the rows of source_df, none added or deleted
    changed_rows,  \* per session: the frame indices the submission iterates over
    todo,          \* per session: the indices still to process, the current one first
    step,          \* per session: the position in StmtOrder of the next statement
    issued,        \* per session: the statements of the run, in the order issued
    messages,      \* per session: the messages the run has shown
    sql_in,        \* an argument list of insert_into_source_table
    sql_out,       \* the statement built from sql_in, once built
    sql_row        \* the row that statement inserts, once executed

vars == <<source, target, clock, pc, source_df, edited_df, index_same,
          changed_rows, todo, step, issued, messages, sql_in, sql_out, sql_row>>

sqlVars == <<sql_in, sql_out, sql_row>>
tableVars == <<source, target, clock>>
gridVars == <<source_df, edited_df, index_same>>

\* the order in which the flag update precedes the source insert
StmtOrder_update_first == <<"override", "update", "insert">>

\* the statements the handler issues for one changed row, in order
StmtOrder == <<"override", "insert", "update">>

RECURSIVE Ascending(_)
\* iterrows(): the indices of a frame in ascending order
Ascending(S) ==
    IF S = {} THEN <<>>
    ELSE LET m == CHOOSE x \in S : \A y \in S : x <= y
         IN <<m>> \o Ascending(S \ {m})

\* session.table(name).to_pandas(), or the empty frame when the call raises
fetch_data(tbl, ok) == IF ok THEN tbl ELSE <<>>

\* the fetched frame with no filter on RECORD_FLAG
ActiveRows_no_filter(df) == [i \in DOMAIN df |-> df[i]]

\* source_df[source_df['RECORD_FLAG'] == 'A']: the index labels are kept
ActiveRows(df) == [i \in {j \in DOMAIN df : df[j]["RECORD_FLAG"] = "A"} |-> df[i]]

\* the columns the data editor locks
disabled(columns) ==
    {col \in SeqToSet(columns) : col # editable_column /\ col \notin SeqToSet(primary_key_cols)}

\* what a user may type into a cell of an unlocked column
CellValues(col) == IF col \in NumCols THEN Vals ELSE Portfolios \cup {None}

\* the cells of the grid that differ from the fetched frame
EditedCells(df, edited) ==
    {ic \in (DOMAIN df) \X SeqToSet(SourceColumns) : edited[ic[1]][ic[2]] # df[ic[1]][ic[2]]}

InitialRow(p, n, v, f) ==
    [PORTFOLIO |-> p, PORTFOLIO_NAME |-> n, MARKET_VALUE |-> v, AS_AT_DATE |-> 0, RECORD_FLAG |-> f]

DefaultSqlIn == [row |-> InitialRow("p1", "n1", 0, "A"), new_value |-> 0]

\* the tables as the warehouse holds them when the sessions open: an earlier,
\* deactivated version of a row and its active version
InitTables ==
    /\ source = <<InitialRow("p1", None, 0, "D"), InitialRow("p1", "n1", 0, "A")>>
    /\ target = <<>>
    /\ clock = 1
    /\ pc = [s \in Sessions |-> "run"]
    /\ source_df = [s \in Sessions |-> <<>>]
    /\ edited_df = [s \in Sessions |-> <<>>]
    /\ index_same = [s \in Sessions |-> TRUE]
    /\ changed_rows = [s \in Sessions |-> <<>>]
    /\ todo = [s \in Sessions |-> <<>>]
    /\ step = [s \in Sessions |-> 1]
    /\ issued = [s \in Sessions |-> <<>>]
    /\ messages = [s \in Sessions |-> <<>>]

Init ==
    /\ InitTables
    /\ sql_in = DefaultSqlIn
    /\ sql_out = <<>>
    /\ sql_row = <<>>

(* ------------------------------ operations --------------------------------- *)
\* a script run up to the grid: fetch the table and, unless the fetched frame
\* is empty, keep its active rows and show them
Fetch(s, ok) ==
    /\ pc[s] = "run"
    /\ LET fetched == fetch_data(source, ok)
           df == ActiveRows(fetched)
       IN /\ source_df' = [source_df EXCEPT ![s] = df]
          /\ edited_df' = [edited_df EXCEPT ![s] = df]
          /\ IF Len(fetched) = 0
             THEN /\ pc' = [pc EXCEPT ![s] = "done"]
                  /\ messages' = [messages EXCEPT ![s] =
                        IF ok THEN <<"info: no data available">>
                        ELSE <<"error: fetching data", "info: no data available">>]
             ELSE /\ pc' = [pc EXCEPT ![s] = "grid"]
                  /\ messages' = [messages EXCEPT ![s] = <<>>]
    /\ index_same' = [index_same EXCEPT ![s] = TRUE]
    /\ changed_rows' = [changed_rows EXCEPT ![s] = <<>>]
    /\ todo' = [todo EXCEPT ![s] = <<>>]
    /\ step' = [step EXCEPT ![s] = 1]
    /\ issued' = [issued EXCEPT ![s] = <<>>]
    /\ UNCHANGED <<tableVars, sqlVars>>

\* the user types v into cell (i, col) of the grid
Edit(s, i, col, v) ==
    /\ pc[s] = "grid"
    /\ i \in DOMAIN edited_df[s]
    /\ col \in SeqToSet(SourceColumns) \ disabled(SourceColumns)
    /\ v \in CellValues(col)
    /\ edited_df[s][i][col] # v
    /\ LET e == [edited_df[s] EXCEPT ![i][col] = v]
       IN /\ Cardinality(EditedCells(source_df[s], e)) <= MaxEdits
          /\ edited_df' = [edited_df EXCEPT ![s] = e]
    /\ UNCHANGED <<tableVars, pc, source_df, index_same, changed_rows, todo, step,
                   issued, messages, sqlVars>>

\* num_rows="dynamic": the user adds or deletes a grid row
AddOrDeleteRow(s) ==
    /\ pc[s] = "grid"
    /\ index_same[s]
    /\ index_same' = [index_same EXCEPT ![s] = FALSE]
    /\ UNCHANGED <<tableVars, pc, source_df, edited_df, changed_rows, todo, step,
                   issued, messages, sqlVars>>

\* "Submit Updates" up to the first statement
Submit(s) ==
    /\ pc[s] = "grid"
    /\ IF ~index_same[s]
       THEN \* comparing differently labelled columns raises; the handler's except shows it
            /\ pc' = [pc EXCEPT ![s] = "done"]
            /\ messages' = [messages EXCEPT ![s] = Append(@, "error: during update/insert")]
            /\ UNCHANGED <<changed_rows, todo>>
       ELSE LET changed == Ascending({i \in DOMAIN source_df[s] :
                              Ne(edited_df[s][i][editable_column], source_df[s][i][editable_column])})
            IN IF changed = <<>>
               THEN /\ pc' = [pc EXCEPT ![s] = "done"]
                    /\ messages' = [messages EXCEPT ![s] = Append(@, "info: no changes")]
                    /\ UNCHANGED <<changed_rows, todo>>
               ELSE /\ pc' = [pc EXCEPT ![s] = "submit"]
                    /\ changed_rows' = [changed_rows EXCEPT ![s] = changed]
                    /\ todo' = [todo EXCEPT ![s] = changed]
                    /\ UNCHANGED messages
    /\ UNCHANGED <<tableVars, gridVars, step, issued, sqlVars>>

\* the handler after a statement of the current row has returned
Continue(s, shown) ==
    IF step[s] < Len(StmtOrder)
    THEN /\ step' = [step EXCEPT ![s] = @ + 1]
         /\ messages' = [messages EXCEPT ![s] = @ \o shown]
         /\ UNCHANGED <<pc, todo>>
    ELSE /\ step' = [step EXCEPT ![s] = 1]
         /\ todo' = [todo EXCEPT ![s] = Tail(@)]
         /\ IF Tail(todo[s]) = <<>>
            THEN /\ pc' = [pc EXCEPT ![s] = "done"]
                 /\ messages' = [messages EXCEPT ![s] = (@ \o shown) \o <<"success: data updated">>]
            ELSE /\ messages' = [messages EXCEPT ![s] = @ \o shown]
                 /\ UNCHANGED pc

Issue(s, kind, sql, ok) ==
    issued' = [issued EXCEPT ![s] =
                  Append(@, [kind |-> kind, index |-> Head(todo[s]), sql |-> sql, ok |-> ok])]

\* insert_into_override_table for the current row
OverrideInsert(s, ok) ==
    /\ pc[s] = "submit"
    /\ StmtOrder[step[s]] = "override"
    /\ LET index == Head(todo[s])
           new_value == edited_df[s][index][editable_column]
           old_value == source_df[s][index][editable_column]
           sql == insert_into_override_table(target_table_name, source_df[s][index],
                                             old_value, new_value)
       IN /\ Issue(s, "override", sql, ok)
          /\ IF ok
             THEN /\ target' = Append(target, InsertedRow(sql, TargetColumns, clock))
                  /\ clock' = clock + 1
                  /\ Continue(s, <<>>)
             ELSE /\ UNCHANGED <<target, clock>>
                  /\ Continue(s, <<"error: inserting into target">>)
    /\ UNCHANGED <<source, gridVars, changed_rows, sqlVars>>

\* insert_into_source_table for the current row
SourceInsert(s, ok) ==
    /\ pc[s] = "submit"
    /\ StmtOrder[step[s]] = "insert"
    /\ LET index == Head(todo[s])
           new_value == edited_df[s][index][editable_column]
           sql == insert_into_source_table(selected_table, source_df[s][index],
                                           new_value, editable_column)
       IN /\ ok => WellFormed(sql)
          /\ Issue(s, "insert", sql, ok)
          /\ IF ok
             THEN /\ source' = Append(source, InsertedRow(sql, SourceColumns, clock))
                  /\ clock' = clock + 1
                  /\ Continue(s, <<>>)
             ELSE /\ UNCHANGED <<source, clock>>
                  /\ Continue(s, <<"error: inserting into source">>)
    /\ UNCHANGED <<target, gridVars, changed_rows, sqlVars>>

\* update_source_table_record_flag for the current row
FlagUpdate(s, ok) ==
    /\ pc[s] = "submit"
    /\ StmtOrder[step[s]] = "update"
    /\ LET index == Head(todo[s])
           row == edited_df[s][index]
           primary_key_values == [col \in SeqToSet(primary_key_cols) |-> row[col]]
           sql == update_source_table_record_flag(selected_table, primary_key_values)
       IN /\ Issue(s, "update", sql, ok)
          /\ IF ok
             THEN /\ source' = ExecUpdate(source, sql, clock)
                  /\ clock' = clock + 1
                  /\ Continue(s, <<>>)
             ELSE /\ UNCHANGED <<source, clock>>
                  /\ Continue(s, <<"error: updating record flag">>)
    /\ UNCHANGED <<target, gridVars, changed_rows, sqlVars>>

Next ==
    \/ \E s \in Sessions, ok \in BOOLEAN : Fetch(s, ok)
    \/ \E s \in Sessions, i \in 1..Len(source), col \in SeqToSet(SourceColumns) :
          \E v \in CellValues(col) : Edit(s, i, col, v)
    \/ \E s \in Sessions : AddOrDeleteRow(s)
    \/ \E s \in Sessions : Submit(s)
    \/ \E s \in Sessions, ok \in BOOLEAN : OverrideInsert(s, ok)
    \/ \E s \in Sessions, ok \in BOOLEAN : SourceInsert(s, ok)
    \/ \E s \in Sessions, ok \in BOOLEAN : FlagUpdate(s, ok)

Spec == Init /\ [][Next]_vars

(* ------------- insert_into_source_table over its argument lists ------------ *)
mainVars == <<source, target, clock, pc, source_df, edited_df, index_same,
              changed_rows, todo, step, issued, messages>>

\* rows of a source table: the columns the script itself reads are present, the
\* other two may be missing from the table
SqlRows ==
    {DictDel(DictDel(InitialRow(p, n, v, "A"), x[1]), x[2]) :
        p \in Portfolios \cup {None}, n \in {"n1", None}, v \in Vals \cup {NaN},
        x \in {<<"-", "-">>, <<"PORTFOLIO_NAME", "-">>, <<"AS_AT_DATE", "-">>,
               <<"PORTFOLIO_NAME", "AS_AT_DATE">>}}

SqlInputs == [row : SqlRows, new_value : Vals \cup {NaN}]

InitSql ==
    /\ InitTables
    /\ sql_in \in SqlInputs
    /\ sql_out = <<>>
    /\ sql_row = <<>>

\* the function builds its statement
SqlBuild ==
    /\ sql_out = <<>>
    /\ sql_out' = <<insert_into_source_table(selected_table, sql_in.row, sql_in.new_value,
                                             editable_column)>>
    /\ UNCHANGED <<mainVars, sql_in, sql_row>>

\* session.sql(insert_sql).collect(): the warehouse adds the row
SqlExecute ==
    /\ Len(sql_out) = 1
    /\ sql_row = <<>>
    /\ WellFormed(sql_out[1])
    /\ sql_row' = <<InsertedRow(sql_out[1], SourceColumns, clock)>>
    /\ UNCHANGED <<mainVars, sql_in, sql_out>>

NextSql == SqlBuild \/ SqlExecute

SpecSql == InitSql /\ [][NextSql]_vars

(* ------------------------------- properties -------------------------------- *)
Entries(s) == {issued[s][j] : j \in 1..Len(issued[s])}

\* the position of frame index i's statement of a kind in a session's run, 0 if none
PositionOf(s, kind, i) ==
    IF \E j \in 1..Len(issued[s]) : issued[s][j].kind = kind /\ issued[s][j].index = i
    THEN CHOOSE j \in 1..Len(issued[s]) : issued[s][j].kind = kind /\ issued[s][j].index = i
    ELSE 0

AllSucceeded(s) == \A j \in 1..Len(issued[s]) : issued[s][j].ok

KeyUnchanged(s, i) ==
    \A j \in 1..Len(primary_key_cols) :
        edited_df[s][i][primary_key_cols[j]] = source_df[s][i][primary_key_cols[j]]

\* C1: in every run, the source insert of a changed row is issued only after
\* the flag update of that row.
C1_FlagUpdateBeforeInsert ==
    \A s \in Sessions : \A i \in DOMAIN source_df[s] :
        PositionOf(s, "insert", i) > 0 =>
            /\ PositionOf(s, "update", i) > 0
            /\ PositionOf(s, "update", i) < PositionOf(s, "insert", i)

\* C2: after a submission by a single user that edits the editable column of
\* one active row, keys unchanged and every statement successful, the old row
\* is flagged 'D' with its old value and the inserted row with the new value
\* is flagged 'A'.
C2_OldInactiveNewActive ==
    \A s \in Sessions :
        (/\ pc[s] = "done"
         /\ \A o \in Sessions \ {s} : pc[o] = "run"
         /\ Len(changed_rows[s]) = 1
         /\ KeyUnchanged(s, changed_rows[s][1])
         /\ Len(issued[s]) = Len(StmtOrder)
         /\ AllSucceeded(s))
        => LET i == changed_rows[s][1]
               old == source_df[s][i]
               new_value == edited_df[s][i][editable_column]
           IN /\ source[i]["RECORD_FLAG"] = "D"
              /\ source[i][editable_column] = old[editable_column]
              /\ \E n \in 1..Len(source) :
                    /\ n \notin DOMAIN source_df[s]
                    /\ source[n]["PORTFOLIO"] = old["PORTFOLIO"]
                    /\ source[n][editable_column] = new_value
                    /\ source[n]["RECORD_FLAG"] = "A"

\* what the statement is to say for a status column or the editable column
ExpectedLiteral(c, new_value) ==
    CASE c = "RECORD_FLAG" -> Quoted("A")
      [] c = "AS_AT_DATE" -> Now
      [] OTHER -> Quoted(new_value)

\* C3: in the INSERT built by insert_into_source_table, RECORD_FLAG,
\* AS_AT_DATE and the editable column are not among the copied columns, and
\* each is named exactly once, with 'A', CURRENT_TIMESTAMP() and the new value;
\* the row the warehouse adds carries those, not the old row's.
C3_InsertOmitsOldStatus ==
    /\ Len(sql_out) = 1 =>
          LET q == sql_out[1]
              copied == Len(q.columns) - 3
          IN \A c \in {"RECORD_FLAG", "AS_AT_DATE", Upper(editable_column)} :
                /\ \A j \in 1..copied : Upper(q.columns[j]) # c
                /\ Cardinality({j \in 1..Len(q.columns) : Upper(q.columns[j]) = c}) = 1
                /\ \A j \in 1..Len(q.columns) :
                      Upper(q.columns[j]) = c => q.values[j] = ExpectedLiteral(c, sql_in.new_value)
    /\ Len(sql_row) = 1 =>
          /\ sql_row[1]["RECORD_FLAG"] = "A"
          /\ sql_row[1]["AS_AT_DATE"] = clock
          /\ sql_row[1][editable_column] = sql_in.new_value

C3_Witness ==
    /\ Len(sql_row) = 1
    /\ {"RECORD_FLAG", "AS_AT_DATE", "PORTFOLIO_NAME"} \subseteq DOMAIN sql_in.row
    /\ sql_in.row["AS_AT_DATE"] # clock
    /\ sql_in.row[editable_column] # sql_in.new_value
    /\ Len(sql_out[1].columns) = 5

AuditRowsOf(s, i) ==
    {n \in 1..Len(target) :
        /\ target[n]["PORTFOLIO"] = source_df[s][i]["PORTFOLIO"]
        /\ target[n]["MARKET_VALUE_OLD"] = source_df[s][i][editable_column]
        /\ target[n]["MARKET_VALUE_NEW"] = edited_df[s][i][editable_column]
        /\ target[n]["RECORD_FLAG"] = "O"}

\* the run's statement of a kind for frame index i was issued and succeeded
Succeeded(s, kind, i) ==
    PositionOf(s, kind, i) > 0 /\ issued[s][PositionOf(s, kind, i)].ok

\* C5: a finished submission has written, for each changed row it has
\* overridden in the source table, exactly one audit row with the fetched key,
\* the fetched old value, the submitted new value and flag 'O'.
C5_EveryOverrideAudited ==
    \A s \in Sessions :
        (pc[s] = "done" /\ \A o \in Sessions \ {s} : pc[o] = "run")
        => \A j \in 1..Len(changed_rows[s]) :
              LET i == changed_rows[s][j]
              IN (Succeeded(s, "insert", i) /\ Succeeded(s, "update", i))
                 => Cardinality(AuditRowsOf(s, i)) = 1

\* C6: after a failed statement for a row, no further statement is issued for
\* that row, and the failure is shown.
C6_NoStatementAfterFailure ==
    \A s \in Sessions :
        /\ \A j, k \in 1..Len(issued[s]) :
              (j < k /\ issued[s][j].index = issued[s][k].index) => issued[s][j].ok
        /\ ~AllSucceeded(s) => \E m \in 1..Len(messages[s]) :
              messages[s][m] \in {"error: inserting into target", "error: inserting into source",
                                  "error: updating record flag"}

\* the audit table records an override whose new value no source row holds
Disagree ==
    \E n \in 1..Len(target) :
        ~\E m \in 1..Len(source) :
            /\ source[m]["PORTFOLIO"] = target[n]["PORTFOLIO"]
            /\ source[m][editable_column] = target[n]["MARKET_VALUE_NEW"]

\* C7: no step takes back or repeats what a statement did: audit rows stay as
\* written, a source row changes only by being flagged, a failed statement
\* leaves both tables as they were and is not issued again, and a disagreement
\* between the two tables lasts until some source insert succeeds.
C7_NoRollbackNoRetry ==
    [][/\ Len(target') >= Len(target)
       /\ \A n \in 1..Len(target) : target'[n] = target[n]
       /\ Len(source') >= Len(source)
       /\ \A n \in 1..Len(source) :
             \/ source'[n] = source[n]
             \/ /\ source[n]["RECORD_FLAG"] = "A"
                /\ source'[n] = [source[n] EXCEPT !["RECORD_FLAG"] = "D", !["AS_AT_DATE"] = clock]
       /\ \A s \in Sessions :
             Len(issued'[s]) > Len(issued[s]) =>
                LET e == issued'[s][Len(issued'[s])]
                IN /\ ~e.ok => (source' = source /\ target' = target)
                   /\ PositionOf(s, e.kind, e.index) = 0
       /\ (Disagree /\ Len(source') = Len(source)) => Disagree']_vars

C7_Witness ==
    \E s \in Sessions :
        /\ pc[s] = "done"
        /\ Succeeded(s, "override", 2)
        /\ PositionOf(s, "insert", 2) > 0 /\ ~Succeeded(s, "insert", 2)
        /\ Succeeded(s, "update", 2)
        /\ Disagree
        /\ source[2]["RECORD_FLAG"] = "D"

\* the active rows of the source table with key k
ActiveWithKey(k) ==
    {n \in 1..Len(source) : source[n]["RECORD_FLAG"] = "A" /\ source[n]["PORTFOLIO"] = k}

\* both sessions fetched row i as active, both submitted an edit of it with the
\* key left alone, and both runs ended with no error shown
BothEdited(i) ==
    \A s \in Sessions :
        /\ pc[s] = "done"
        /\ i \in DOMAIN source_df[s]
        /\ PositionOf(s, "update", i) > 0
        /\ KeyUnchanged(s, i)
        /\ AllSucceeded(s)
        /\ messages[s] = <<"success: data updated">>

LostOrDuplicate(i) ==
    LET k == source[i]["PORTFOLIO"]
    IN \/ Cardinality(ActiveWithKey(k)) > 1
       \/ \E s \in Sessions :
             \A n \in ActiveWithKey(k) : source[n][editable_column] # edited_df[s][i][editable_column]

\* C8: whenever two sessions have both completed, with no error, an edit of the
\* same row they both fetched as active, the source table holds duplicate
\* active rows for its key or no active row holds the value one of them
\* submitted.
C8_ConcurrentEditsLoseOrDuplicate ==
    \A i \in 1..Len(source) : BothEdited(i) => LostOrDuplicate(i)

C8_Witness ==
    /\ BothEdited(2)
    /\ LostOrDuplicate(2)
    /\ edited_df[1][2][editable_column] # edited_df[2][2][editable_column]
    /\ Len(target) = 2

\* C9: the flag update of a row is keyed by the key of the fetched row, the
\* one whose copy is inserted and audited.
C9_UpdateKeyIsFetchedKey ==
    \A s \in Sessions : \A e \in Entries(s) :
        e.kind = "update" =>
            e.sql = update_source_table_record_flag(selected_table,
                       [col \in SeqToSet(primary_key_cols) |-> source_df[s][e.index][col]])

\* C10: a run shows the success message only if every statement it issued
\* succeeded.
C10_SuccessOnlyIfAllSucceeded ==
    \A s \in Sessions :
        (\E m \in 1..Len(messages[s]) : messages[s][m] = "success: data updated")
        => AllSucceeded(s)

====
